---- MODULE Spec2Model ----
(***************************************************************************)
(* Request gatekeeping of the PersonalNoteManager server                   *)
(* (src/7-authorization): the ASGI middleware stack, the per-operation     *)
(* role check, the note operations and the confirmation round-trip of the  *)
(* two delete tools.                                                       *)
(*                                                                         *)
(* Strings are sequences of one-character strings, so that str.lower(),    *)
(* the substring test, readlines() and urlparse() are computed and not     *)
(* assumed.  The event loop runs one handler at a time: `cur` is the call  *)
(* the loop is running, `suspended` the coroutines parked on an await of   *)
(* ctx.elicit / ctx.sample.  `probe` holds the input and the output of a   *)
(* function that a specification applies on its own (SpecRole,            *)
(* SpecOrigin), and the configuration of the instances sharing `redis`     *)
(* (SpecStore).                                                            *)
(***************************************************************************)
EXTENDS Integers, Sequences, FiniteSets, Bags, TLC

VARIABLES
    allowed_hosts,  \* HostOriginValidationMiddleware.allowed_hosts
    notes,          \* the file at Config.FILE_PATH: [exists, content]
    cur,            \* the request / call the event loop is running
    suspended,      \* bag of coroutines awaiting ctx.elicit or ctx.sample
    probe,          \* a function applied on its own: its input and its output
    redis           \* the RedisStore of the session records: key -> stored value

vars == <<allowed_hosts, notes, cur, suspended, probe, redis>>

\* ---------------------------------------------------------------- bounds
MaxPending == 2     \* coroutines suspended at the same time
MaxFileLen == 4     \* characters in the notes file
MaxRoles == 2       \* entries of the realm_access.roles claim

\* --------------------------------------------------------------- strings
NL == "\n"

UpperChars == <<"A","B","C","D","E","F","G","H","I","J","K","L","M",
                "N","O","P","Q","R","S","T","U","V","W","X","Y","Z">>
LowerChars == <<"a","b","c","d","e","f","g","h","i","j","k","l","m",
                "n","o","p","q","r","s","t","u","v","w","x","y","z">>
Digits == {"0","1","2","3","4","5","6","7","8","9"}

Range(s) == {s[i] : i \in 1..Len(s)}

LowerChar(c) ==
    IF \E i \in 1..Len(UpperChars) : UpperChars[i] = c
    THEN LowerChars[CHOOSE i \in 1..Len(UpperChars) : UpperChars[i] = c]
    ELSE c

\* str.lower()
lower(s) == [i \in 1..Len(s) |-> LowerChar(s[i])]

\* Python's `t in s` on strings
Contains(t, s) ==
    \E i \in 0..(Len(s) - Len(t)) : SubSeq(s, i + 1, i + Len(t)) = t

\* str.find(ch): 1-based index of the first ch in s, 0 when there is none
Find(s, chars) ==
    IF \E i \in 1..Len(s) : s[i] \in chars
    THEN CHOOSE i \in 1..Len(s) : s[i] \in chars /\ \A j \in 1..(i - 1) : s[j] \notin chars
    ELSE 0

\* index of the last ch in s, 0 when there is none (str.rpartition)
RFind(s, chars) ==
    IF \E i \in 1..Len(s) : s[i] \in chars
    THEN CHOOSE i \in 1..Len(s) : s[i] \in chars /\ \A j \in (i + 1)..Len(s) : s[j] \notin chars
    ELSE 0

\* f.readlines(): the content cut after every newline, line ends kept
RECURSIVE readlines(_)
readlines(content) ==
    IF content = <<>> THEN <<>>
    ELSE LET i == Find(content, {NL})
             n == IF i = 0 THEN Len(content) ELSE i
         IN  <<SubSeq(content, 1, n)>> \o readlines(SubSeq(content, n + 1, Len(content)))

\* f.writelines(lines): the lines written one after the other
RECURSIVE writelines(_)
writelines(lines) ==
    IF lines = <<>> THEN <<>> ELSE Head(lines) \o writelines(Tail(lines))

\* str.strip() == '' : only whitespace
IsBlank(s) == \A i \in 1..Len(s) : s[i] \in {NL, " "}

\* Python's None, distinct from every string of the model
None == <<"<None>">>

\* ------------------------------------------------- app/config.py, constants
mcp_read   == <<"m","c","p","_","r","e","a","d">>
mcp_write  == <<"m","c","p","_","w","r","i","t","e">>
mcp_delete == <<"m","c","p","_","d","e","l","e","t","e">>

\* Config.ALLOWED_ORIGINS
ALLOWED_ORIGINS ==
    << <<"1","2","7",".","0",".","0",".","1">>,
       <<"l","o","c","a","l","h","o","s","t">> >>

\* ------------------------------------------------ app/security/auth.py
\* An identity is the ctx handed to the check: the token (or None) and the
\* shape of its claims.  realm_access / roles are "absent" (no such key),
\* "None" (the key maps to null) or present; list holds the roles entry.
Identity(token, realm_access, roles, list) ==
    [token |-> token, realm_access |-> realm_access, roles |-> roles, list |-> list]

\* has_role with `role in roles` in place of `role.lower() in roles`
has_role_exact(role, ctx) ==
    IF ctx.token = "None" THEN "raise"
    ELSE IF ctx.realm_access = "None" THEN "raise"
    ELSE IF ctx.realm_access = "dict" /\ ctx.roles = "None" THEN "raise"
    ELSE LET claimed == IF ctx.realm_access = "dict" /\ ctx.roles = "list"
                        THEN ctx.list ELSE <<>>
             roles == [i \in 1..Len(claimed) |-> lower(claimed[i])]
         IN  IF role \in Range(roles) THEN "True" ELSE "False"

\* has_role(role).check(ctx): "True", "False", or "raise" when the body
\* raises (None has no .claims / no .get, None is not iterable).
has_role(role, ctx) ==
    IF ctx.token = "None" THEN "raise"
    ELSE IF ctx.realm_access = "None" THEN "raise"
    ELSE IF ctx.realm_access = "dict" /\ ctx.roles = "None" THEN "raise"
    ELSE LET claimed == IF ctx.realm_access = "dict" /\ ctx.roles = "list"
                        THEN ctx.list ELSE <<>>
             roles == [i \in 1..Len(claimed) |-> lower(claimed[i])]
         IN  IF lower(role) \in Range(roles) THEN "True" ELSE "False"

\* ------------------------------------------ app/security/middleware.py
scheme_chars == Range(UpperChars) \cup Range(LowerChars) \cup Digits \cup {"+", "-", "."}

\* urllib.parse.urlparse(url).scheme
\* (the model's alphabet has no leading blanks, tabs or brackets)
urlparse_scheme(url) ==
    LET i == Find(url, {":"})
    IN  IF i > 1 /\ url[1] \in (Range(UpperChars) \cup Range(LowerChars))
           /\ \A j \in 1..(i - 1) : url[j] \in scheme_chars
        THEN lower(SubSeq(url, 1, i - 1))
        ELSE <<>>

\* urllib.parse.urlparse(url).netloc
urlparse_netloc(url) ==
    LET s    == urlparse_scheme(url)
        rest == IF s = <<>> THEN url ELSE SubSeq(url, Len(s) + 2, Len(url))
    IN  IF Len(rest) >= 2 /\ rest[1] = "/" /\ rest[2] = "/"
        THEN LET after == SubSeq(rest, 3, Len(rest))
                 d     == Find(after, {"/", "?", "#"})
             IN  IF d = 0 THEN after ELSE SubSeq(after, 1, d - 1)
        ELSE <<>>

\* urllib.parse.urlparse(url).hostname: the netloc after the last "@", up to
\* the first ":", lower-cased; None when that is empty
urlparse_hostname(url) ==
    LET netloc   == urlparse_netloc(url)
        at       == RFind(netloc, {"@"})
        hostinfo == SubSeq(netloc, at + 1, Len(netloc))
        c        == Find(hostinfo, {":"})
        host     == IF c = 0 THEN hostinfo ELSE SubSeq(hostinfo, 1, c - 1)
    IN  IF host = <<>> THEN None ELSE lower(host)

\* dict(scope["headers"]).get(name): the value of the last header of that
\* name, None when there is none
HeadersGet(headers, name) ==
    LET idx == {i \in 1..Len(headers) : headers[i][1] = name}
    IN  IF idx = {} THEN None
        ELSE headers[CHOOSE i \in idx : \A j \in idx : j <= i][2]

\* HostOriginValidationMiddleware.__init__
HostOriginValidationMiddleware_init(hosts) == {lower(hosts[i]) : i \in 1..Len(hosts)}

\* __call__ with headers.get(b"origin", b"") parsed whether or not it is empty
HostOriginValidationMiddleware_call_always(allowed, scope_type, headers) ==
    IF scope_type = "http"
    THEN LET got    == HeadersGet(headers, "origin")
             origin == IF got = None THEN <<>> ELSE got
             parsed == lower(origin)
         IN  IF urlparse_scheme(parsed) \notin {<<"h","t","t","p">>, <<"h","t","t","p","s">>}
             THEN "raise"
             ELSE IF urlparse_hostname(parsed) \notin allowed
             THEN "raise"
             ELSE "call_app"
    ELSE "call_app"

\* HostOriginValidationMiddleware.__call__ up to its last line: "raise" when
\* it raises HTTPException(403, "Invalid Origin"), "call_app" when it goes on
\* to `await self.app(scope, receive, send)`
HostOriginValidationMiddleware_call(allowed, scope_type, headers) ==
    IF scope_type = "http"
    THEN LET origin == HeadersGet(headers, "origin")
         IN  IF origin # None /\ origin # <<>>
             THEN LET parsed == lower(origin)
                  IN  IF urlparse_scheme(parsed) \notin {<<"h","t","t","p">>, <<"h","t","t","p","s">>}
                      THEN "raise"
                      ELSE IF urlparse_hostname(parsed) \notin allowed
                      THEN "raise"
                      ELSE "call_app"
             ELSE "call_app"
    ELSE "call_app"

\* ------------------------------------------------------------- main.py
\* Starlette's app.add_middleware puts the new middleware in front of the
\* ones added before it: the stack is listed outermost first.
add_middleware(stack, middleware) == <<middleware>> \o stack

\* configure_middleware(app)
configure_middleware ==
    add_middleware(
        add_middleware(<<>>, "HostOriginValidationMiddleware"),
        "CORSMiddleware")

\* --------------------------------------- app/services/note_service.py
\* What an operation hands back to its caller.  kind: "dict", "tuple", "str"
\* or "None" for a returned value, "raise" for an exception leaving the
\* handler, "forbidden" for a call the role gate denied, "http" for a
\* response written by the HTTP layer.  deleted = -1: no "deleted" key.
Result(kind, status, message, deleted) ==
    [kind |-> kind, status |-> status, message |-> message, deleted |-> deleted]

NoResult == Result("-", "-", "-", -1)

\* The outcome of a NoteService call: the file afterwards, the value
\* returned, and the file accesses made ("open_r", "open_w", "open_a").
Outcome(file, result, events) == [file |-> file, result |-> result, events |-> events]

NoFile == [exists |-> FALSE, content |-> <<>>]

\* NoteService.store_note(note); io = "fail": makedirs/open/write raises
NoteService_store_note(file, note, io) ==
    IF io = "fail"
    THEN Outcome(file, Result("tuple", "False", "Error storing note: ...", -1), <<>>)
    ELSE Outcome([exists |-> TRUE, content |-> file.content \o note \o <<NL>>],
                 Result("tuple", "True", "Note stored successfully.", -1),
                 <<"open_a">>)

\* NoteService.get_all_notes()
NoteService_get_all_notes(file, io) ==
    IF ~file.exists
    THEN Outcome(file, Result("str", "-", "No notes found. The notes file doesn't exist yet.", -1), <<>>)
    ELSE IF io = "fail"
    THEN Outcome(file, Result("str", "-", "Error retrieving notes: ...", -1), <<>>)
    ELSE IF IsBlank(file.content)
    THEN Outcome(file, Result("str", "-", "No notes found. The notes file is empty.", -1), <<"open_r">>)
    ELSE Outcome(file, Result("str", "-", "All Stored Notes: ...", -1), <<"open_r">>)

\* NoteService.read_notes_content(): the content in `message`, or raises
NoteService_read_notes_content(file, io) ==
    IF file.exists
    THEN IF io = "fail"
         THEN Outcome(file, Result("raise", "-", "Error retrieving notes: ...", -1), <<>>)
         ELSE Outcome(file, Result("str", "-", file.content, -1), <<"open_r">>)
    ELSE Outcome(file, Result("str", "-", <<>>, -1), <<>>)

\* NoteService.delete_all_notes()
NoteService_delete_all_notes(file, io) ==
    IF file.exists /\ io = "fail"
    THEN Outcome(file, Result("dict", "error", "Failed to delete notes: ...", -1), <<>>)
    ELSE Outcome(IF file.exists THEN [exists |-> TRUE, content |-> <<>>] ELSE file,
                 Result("dict", "success", "All notes have been deleted.", -1),
                 IF file.exists THEN <<"open_w">> ELSE <<>>)

\* NoteService.delete_notes_containing(contained_text)
NoteService_delete_notes_containing(file, contained_text, io) ==
    IF ~file.exists
    THEN Outcome(file, Result("dict", "success", "No notes file found. Nothing to delete.", -1), <<>>)
    ELSE IF io = "fail"
    THEN Outcome(file, Result("dict", "error", "Failed to delete notes: ...", -1), <<>>)
    ELSE LET lines           == readlines(file.content)
             remaining_lines == SelectSeq(lines, LAMBDA line : ~Contains(contained_text, line))
             deleted_count   == Len(lines) - Len(remaining_lines)
         IN  Outcome([exists |-> TRUE, content |-> writelines(remaining_lines)],
                     Result("dict", "success", "Deleted N note(s) containing 'T'.", deleted_count),
                     <<"open_r", "open_w">>)

\* ------------------------------------------- app/mcp_endpoints/routes.py
\* What ctx.elicit(..., response_type=bool) resolves to: the class of the
\* result object, its .action and its .data ("True", "False", or "str" for
\* a value that is neither).  Unknown stands for any other result object.
Elicitation(cls, action, data) == [cls |-> cls, action |-> action, data |-> data]

AcceptedElicitation(data) == Elicitation("AcceptedElicitation", "accept", data)
DeclinedElicitation  == Elicitation("DeclinedElicitation", "decline", "-")
CancelledElicitation == Elicitation("CancelledElicitation", "cancel", "-")
UnknownElicitation   == Elicitation("Unknown", "unknown", "-")

ElicitationResults ==
    {AcceptedElicitation("True"), AcceptedElicitation("False"), AcceptedElicitation("str"),
     DeclinedElicitation, CancelledElicitation, UnknownElicitation}

\* delete_all_notes with `if confirmed:` in place of `if confirmed is True:`
delete_all_notes_truthy(file, result, io) ==
    IF result.action = "accept" /\ result.data \in {"True", "str"}
    THEN NoteService_delete_all_notes(file, io)
    ELSE IF result.action = "accept" /\ result.data = "False"
    THEN Outcome(file, Result("dict", "cancelled", "Deletion not confirmed by user.", -1), <<>>)
    ELSE IF result.action = "decline"
    THEN Outcome(file, Result("dict", "cancelled", "Deletion declined by user.", -1), <<>>)
    ELSE IF result.action = "cancel"
    THEN Outcome(file, Result("dict", "cancelled", "Deletion cancelled by user.", -1), <<>>)
    ELSE Outcome(file, Result("dict", "error", "Invalid confirmation response.", -1), <<>>)

\* delete_all_notes(ctx) from the line after `await ctx.elicit(...)`
delete_all_notes(file, result, io) ==
    IF result.action = "accept" /\ result.data = "True"
    THEN NoteService_delete_all_notes(file, io)
    ELSE IF result.action = "accept" /\ result.data = "False"
    THEN Outcome(file, Result("dict", "cancelled", "Deletion not confirmed by user.", -1), <<>>)
    ELSE IF result.action = "decline"
    THEN Outcome(file, Result("dict", "cancelled", "Deletion declined by user.", -1), <<>>)
    ELSE IF result.action = "cancel"
    THEN Outcome(file, Result("dict", "cancelled", "Deletion cancelled by user.", -1), <<>>)
    ELSE Outcome(file, Result("dict", "error", "Invalid confirmation response.", -1), <<>>)

\* delete_note that deletes on every AcceptedElicitation, whatever its data
delete_note_any_accept(file, contained_text, result, io) ==
    IF result.cls = "AcceptedElicitation"
    THEN NoteService_delete_notes_containing(file, contained_text, io)
    ELSE IF result.cls = "DeclinedElicitation"
    THEN Outcome(file, Result("dict", "cancelled", "Deletion declined by user.", -1), <<>>)
    ELSE IF result.cls = "CancelledElicitation"
    THEN Outcome(file, Result("dict", "cancelled", "Deletion cancelled by user.", -1), <<>>)
    ELSE Outcome(file, Result("None", "-", "-", -1), <<>>)

\* delete_note(contained_text, ctx) from the line after `await ctx.elicit(...)`;
\* a result no case matches falls off the end of the function: None
delete_note(file, contained_text, result, io) ==
    IF result.cls = "AcceptedElicitation"
    THEN IF result.data = "True"
         THEN NoteService_delete_notes_containing(file, contained_text, io)
         ELSE Outcome(file, Result("dict", "cancelled", "Deletion declined by user.", -1), <<>>)
    ELSE IF result.cls = "DeclinedElicitation"
    THEN Outcome(file, Result("dict", "cancelled", "Deletion declined by user.", -1), <<>>)
    ELSE IF result.cls = "CancelledElicitation"
    THEN Outcome(file, Result("dict", "cancelled", "Deletion cancelled by user.", -1), <<>>)
    ELSE Outcome(file, Result("None", "-", "-", -1), <<>>)

\* register_routes with the delete tools registered under the read role
RequiredRole_read_deletes(op) ==
    CASE op = "store_note"            -> mcp_write
      [] op = "get_all_notes"         -> mcp_read
      [] op = "classify_notes_prompt" -> mcp_read
      [] op = "classify_stored_notes" -> mcp_read
      [] op = "delete_all_notes"      -> mcp_read
      [] op = "delete_note"           -> mcp_read

\* register_routes: the role each operation is registered with (auth=has_role(...))
RequiredRole(op) ==
    CASE op = "store_note"            -> mcp_write
      [] op = "get_all_notes"         -> mcp_read
      [] op = "classify_notes_prompt" -> mcp_read
      [] op = "classify_stored_notes" -> mcp_read
      [] op = "delete_all_notes"      -> mcp_delete
      [] op = "delete_note"           -> mcp_delete

Operations ==
    {"store_note", "get_all_notes", "classify_notes_prompt",
     "classify_stored_notes", "delete_all_notes", "delete_note"}

\* ------------------------------------------------------------- inputs
MCP_WRITE  == <<"M","C","P","_","W","R","I","T","E">>
Mcp_Delete == <<"M","c","p","_","D","e","l","e","t","e">>

NoToken       == Identity("None", "absent", "absent", <<>>)
NoRealmAccess == Identity("AccessToken", "absent", "absent", <<>>)
NullRealm     == Identity("AccessToken", "None", "absent", <<>>)
NoRolesKey    == Identity("AccessToken", "dict", "absent", <<>>)
NullRoles     == Identity("AccessToken", "dict", "None", <<>>)
WithRoles(list) == Identity("AccessToken", "dict", "list", list)

\* the identities the token of a call may carry
Identities ==
    {NoToken, NoRealmAccess, NullRoles,
     WithRoles(<<>>), WithRoles(<<mcp_read>>), WithRoles(<<mcp_read, MCP_WRITE>>),
     WithRoles(<<Mcp_Delete>>), WithRoles(<<mcp_read, mcp_write, mcp_delete>>)}

Header(name, value) == <<name, value>>

http_localhost  == <<"h","t","t","p",":","/","/","l","o","c","a","l","h","o","s","t">>
HTTP_LocalHost  == <<"H","T","T","P",":","/","/","L","o","c","a","l","H","o","s","t",":","6","2","7","4">>
http_evil       == <<"h","t","t","p",":","/","/","e","v","i","l",".","e","x","a","m","p","l","e">>
ftp_localhost   == <<"f","t","p",":","/","/","l","o","c","a","l","h","o","s","t">>
host_value      == <<"l","o","c","a","l","h","o","s","t",":","8","0","0","0">>

\* the header lists of the requests
HeaderLists ==
    { <<>>,
      <<Header("host", host_value)>>,
      <<Header("origin", <<>>)>>,
      <<Header("origin", http_localhost)>>,
      <<Header("host", host_value), Header("origin", HTTP_LocalHost)>>,
      <<Header("origin", http_evil)>>,
      <<Header("origin", ftp_localhost)>>,
      <<Header("origin", http_localhost), Header("origin", http_evil)>> }

ScopeTypes == {"http", "websocket"}

\* the allow-lists the middleware is constructed with
AllowLists == {ALLOWED_ORIGINS, <<>>}

\* note texts and match texts of the calls
NoteTexts == { <<"u">>, <<"b">>, <<"u", "b">> }
MatchTexts == { <<"u">>, <<>> }

Arguments(op) ==
    CASE op = "store_note"  -> NoteTexts
      [] op = "delete_note" -> MatchTexts
      [] OTHER              -> { <<>> }

IOs == {"ok", "fail"}

\* -------------------------------------------------------------- state
NoIdentity == Identity("-", "-", "-", <<>>)
NoElicitation == Elicitation("-", "-", "-")

Idle ==
    [pc |-> "idle", mw |-> 0, scope_type |-> "-", headers |-> <<>>,
     op |-> "-", arg |-> <<>>, ident |-> NoIdentity, trace |-> <<>>,
     elicited |-> NoElicitation, before |-> NoFile, response |-> NoResult]

\* a coroutine parked on an await: what its frame keeps
Frame(c, await) == [op |-> c.op, arg |-> c.arg, trace |-> c.trace, await |-> await]

Pending == BagCardinality(suspended)

NoProbe == [fn |-> "-"]

\* the keys of the session store, and the store holding no record
Keys == {"session-1", "session-2"}
Missing == [missing |-> TRUE]
NoRecords == [k \in Keys |-> Missing]

Init ==
    /\ redis = NoRecords
    /\ \E hosts \in AllowLists :
           allowed_hosts = HostOriginValidationMiddleware_init(hosts)
    /\ notes = NoFile
    /\ cur = Idle
    /\ suspended = EmptyBag
    /\ probe = NoProbe

\* ServerErrorMiddleware, which Starlette wraps around the user middleware:
\* an exception that reaches it is answered with 500
ServerErrorResponse == Result("http", "500", "Internal Server Error", -1)

\* an inbound ASGI connection enters the middleware stack
Receive(scope_type, headers) ==
    /\ cur.pc \in {"idle", "done"}
    /\ cur' = [Idle EXCEPT !.pc = "middleware", !.mw = 1,
                           !.scope_type = scope_type, !.headers = headers]
    /\ UNCHANGED <<allowed_hosts, notes, suspended, probe, redis>>

\* the middleware at position cur.mw calls the app it wraps
CallNext(c, event) ==
    [c EXCEPT !.trace = c.trace \o <<event>>,
              !.pc = IF c.mw = Len(configure_middleware) THEN "app" ELSE "middleware",
              !.mw = c.mw + 1]

\* CORSMiddleware.__call__: hands the request to the app it wraps
CORSMiddleware ==
    /\ cur.pc = "middleware"
    /\ configure_middleware[cur.mw] = "CORSMiddleware"
    /\ cur' = CallNext(cur, "CORSMiddleware")
    /\ UNCHANGED <<allowed_hosts, notes, suspended, probe, redis>>

\* __call__ that notes the invalid Origin and calls the app all the same
HostOriginValidationMiddleware_no_abort ==
    /\ cur.pc = "middleware"
    /\ configure_middleware[cur.mw] = "HostOriginValidationMiddleware"
    /\ LET verdict == HostOriginValidationMiddleware_call(allowed_hosts, cur.scope_type, cur.headers)
       IN  IF verdict = "raise"
           THEN cur' = CallNext([cur EXCEPT !.trace = cur.trace \o <<"HTTPException">>],
                                "HostOriginValidationMiddleware")
           ELSE cur' = CallNext(cur, "HostOriginValidationMiddleware")
    /\ UNCHANGED <<allowed_hosts, notes, suspended, probe, redis>>

\* __call__ that remembers a rejection: after an invalid Origin it empties
\* the allow-list it validates against
HostOriginValidationMiddleware_lockout ==
    /\ cur.pc = "middleware"
    /\ configure_middleware[cur.mw] = "HostOriginValidationMiddleware"
    /\ LET verdict == HostOriginValidationMiddleware_call(allowed_hosts, cur.scope_type, cur.headers)
       IN  IF verdict = "raise"
           THEN /\ cur' = [cur EXCEPT !.pc = "done",
                                      !.trace = cur.trace \o <<"HostOriginValidationMiddleware", "HTTPException">>,
                                      !.response = ServerErrorResponse]
                /\ allowed_hosts' = {}
           ELSE /\ cur' = CallNext(cur, "HostOriginValidationMiddleware")
                /\ allowed_hosts' = allowed_hosts
    /\ UNCHANGED <<notes, suspended, probe, redis>>

\* HostOriginValidationMiddleware.__call__
HostOriginValidationMiddleware ==
    /\ cur.pc = "middleware"
    /\ configure_middleware[cur.mw] = "HostOriginValidationMiddleware"
    /\ LET verdict == HostOriginValidationMiddleware_call(allowed_hosts, cur.scope_type, cur.headers)
       IN  IF verdict = "raise"
           THEN cur' = [cur EXCEPT !.pc = "done",
                                   !.trace = cur.trace \o <<"HostOriginValidationMiddleware", "HTTPException">>,
                                   !.response = ServerErrorResponse]
           ELSE cur' = CallNext(cur, "HostOriginValidationMiddleware")
    /\ UNCHANGED <<allowed_hosts, notes, suspended, probe, redis>>

\* the operations that may park on an await
Suspending == {"classify_stored_notes", "delete_all_notes", "delete_note"}

\* The app the middleware wraps is called: the transport reads the call and
\* the auth proxy attaches the token to it.  The call keeps the trace of the
\* request, not its ASGI scope.
Dispatch(op, arg, ident) ==
    /\ cur.pc = "app"
    /\ cur.scope_type = "http"
    /\ op = "store_note" => Len(notes.content) + Len(arg) + 1 <= MaxFileLen
    /\ op \in Suspending => Pending < MaxPending
    /\ cur' = [Idle EXCEPT !.pc = "check", !.op = op, !.arg = arg, !.ident = ident,
                           !.trace = cur.trace \o <<"app">>]
    /\ UNCHANGED <<allowed_hosts, notes, suspended, probe, redis>>

\* a connection that is no HTTP request finds no route in the app
NoRoute ==
    /\ cur.pc = "app"
    /\ cur.scope_type # "http"
    /\ cur' = [cur EXCEPT !.pc = "done", !.trace = cur.trace \o <<"app">>,
                          !.response = Result("http", "close", "-", -1)]
    /\ UNCHANGED <<allowed_hosts, notes, suspended, probe, redis>>

Forbidden == Result("forbidden", "-", "-", -1)

\* What the caller gets when the check of the operation does not return
\* True: a denial; an exception raised by the check is either reported as a
\* denial too or reaches the caller as a fault.
Denials(verdict) ==
    IF verdict = "False" THEN {Forbidden}
    ELSE {Forbidden, Result("raise", "-", "-", -1)}

\* auth=has_role(...) of the operation's registration, run on the call
RoleCheck ==
    /\ cur.pc = "check"
    /\ LET verdict == has_role(RequiredRole(cur.op), cur.ident)
       IN  IF verdict = "True"
           THEN cur' = [cur EXCEPT !.pc = "body", !.trace = cur.trace \o <<"check">>]
           ELSE \E denial \in Denials(verdict) :
                    cur' = [cur EXCEPT !.pc = "done", !.trace = cur.trace \o <<"check">>,
                                       !.response = denial]
    /\ UNCHANGED <<allowed_hosts, notes, suspended, probe, redis>>

\* the handler returns: its file accesses and its value are recorded
Return(c, out, before) ==
    [c EXCEPT !.pc = "done", !.trace = c.trace \o out.events \o <<"return">>,
              !.before = before, !.response = out.result]

\* store_note(note)
store_note(io) ==
    /\ cur.pc = "body" /\ cur.op = "store_note"
    /\ LET c   == [cur EXCEPT !.trace = cur.trace \o <<"body">>]
           out == NoteService_store_note(notes, cur.arg, io)
       IN  /\ notes' = out.file
           /\ cur' = Return(c, out, notes)
    /\ UNCHANGED <<allowed_hosts, suspended, probe, redis>>

\* get_all_notes()
get_all_notes(io) ==
    /\ cur.pc = "body" /\ cur.op = "get_all_notes"
    /\ LET c   == [cur EXCEPT !.trace = cur.trace \o <<"body">>]
           out == NoteService_get_all_notes(notes, io)
       IN  cur' = Return(c, out, notes)
    /\ UNCHANGED <<allowed_hosts, notes, suspended, probe, redis>>

\* classify_notes_prompt()
classify_notes_prompt ==
    /\ cur.pc = "body" /\ cur.op = "classify_notes_prompt"
    /\ LET c   == [cur EXCEPT !.trace = cur.trace \o <<"body">>]
           out == Outcome(notes, Result("str", "-", "Considering the notes ...", -1), <<>>)
       IN  cur' = Return(c, out, notes)
    /\ UNCHANGED <<allowed_hosts, notes, suspended, probe, redis>>

\* classify_stored_notes(ctx) up to `await ctx.sample(...)`
classify_stored_notes(io) ==
    /\ cur.pc = "body" /\ cur.op = "classify_stored_notes"
    /\ LET c    == [cur EXCEPT !.trace = cur.trace \o <<"body">>]
           read == NoteService_read_notes_content(notes, io)
       IN  IF read.result.kind = "raise"
           THEN /\ cur' = Return(c, Outcome(notes, Result("str", "-", "Error retrieving notes: ...", -1),
                                            read.events), notes)
                /\ UNCHANGED suspended
           ELSE IF IsBlank(read.result.message)
           THEN /\ cur' = Return(c, Outcome(notes, Result("str", "-", "Your notes are empty.", -1),
                                            read.events), notes)
                /\ UNCHANGED suspended
           ELSE /\ suspended' = suspended (+) SetToBag({Frame(
                        [c EXCEPT !.trace = c.trace \o read.events \o <<"sample">>], "sample")})
                /\ cur' = Idle
    /\ UNCHANGED <<allowed_hosts, notes, probe, redis>>

\* a delete tool that waits for the confirmation without yielding: the event
\* loop stays inside the call until the answer is there
Elicit_blocking ==
    /\ cur.pc = "body" /\ cur.op \in {"delete_all_notes", "delete_note"}
    /\ suspended' = suspended (+) SetToBag({Frame(
            [cur EXCEPT !.trace = cur.trace \o <<"body", "elicit">>], "elicit")})
    /\ cur' = [cur EXCEPT !.pc = "blocked", !.trace = cur.trace \o <<"body", "elicit">>]
    /\ UNCHANGED <<allowed_hosts, notes, probe, redis>>

\* delete_all_notes(ctx) / delete_note(contained_text, ctx) up to
\* `await ctx.elicit(...)`
Elicit ==
    /\ cur.pc = "body" /\ cur.op \in {"delete_all_notes", "delete_note"}
    /\ suspended' = suspended (+) SetToBag({Frame(
            [cur EXCEPT !.trace = cur.trace \o <<"body", "elicit">>], "elicit")})
    /\ cur' = Idle
    /\ UNCHANGED <<allowed_hosts, notes, probe, redis>>

\* the coroutine of frame f runs again
Resumed(f) ==
    [Idle EXCEPT !.pc = "body", !.op = f.op, !.arg = f.arg, !.trace = f.trace]

\* ctx.sample(...) resolves: classify_stored_notes returns sampling_result.text
SampleResolved(f) ==
    /\ cur.pc \in {"idle", "done"}
    /\ f \in BagToSet(suspended) /\ f.await = "sample"
    /\ suspended' = suspended (-) SetToBag({f})
    /\ cur' = Return(Resumed(f), Outcome(notes, Result("str", "-", "sampling_result.text", -1), <<>>), notes)
    /\ UNCHANGED <<allowed_hosts, notes, probe, redis>>

\* ctx.elicit(...) resolves to `result`: the rest of the delete tool runs
ElicitResolved(f, result, io) ==
    /\ cur.pc \in {"idle", "done"}
    /\ f \in BagToSet(suspended) /\ f.await = "elicit"
    /\ suspended' = suspended (-) SetToBag({f})
    /\ LET c   == [Resumed(f) EXCEPT !.elicited = result]
           out == IF f.op = "delete_all_notes"
                  THEN delete_all_notes(notes, result, io)
                  ELSE delete_note(notes, f.arg, result, io)
       IN  /\ notes' = out.file
           /\ cur' = Return(c, out, notes)
    /\ UNCHANGED <<allowed_hosts, probe, redis>>

Next ==
    \/ \E t \in ScopeTypes, h \in HeaderLists : Receive(t, h)
    \/ CORSMiddleware
    \/ HostOriginValidationMiddleware
    \/ \E op \in Operations : \E arg \in Arguments(op), ident \in Identities :
           Dispatch(op, arg, ident)
    \/ NoRoute
    \/ RoleCheck
    \/ \E io \in IOs : store_note(io)
    \/ \E io \in IOs : get_all_notes(io)
    \/ classify_notes_prompt
    \/ \E io \in IOs : classify_stored_notes(io)
    \/ Elicit
    \/ \E f \in BagToSet(suspended) : SampleResolved(f)
    \/ \E f \in BagToSet(suspended), result \in ElicitationResults, io \in IOs :
           ElicitResolved(f, result, io)

Spec == Init /\ [][Next]_vars

\* ------------------------------------------- has_role applied on its own
\* the role strings of operations and of claims
RoleNames == {mcp_read, mcp_write, MCP_WRITE, Mcp_Delete}

RECURSIVE RoleLists(_)
RoleLists(n) ==
    IF n = 0 THEN { <<>> }
    ELSE RoleLists(n - 1) \cup
         {Append(l, r) : l \in {x \in RoleLists(n - 1) : Len(x) = n - 1}, r \in RoleNames}

AllIdentities ==
    {NoToken, NoRealmAccess, NullRealm, NoRolesKey, NullRoles}
        \cup {WithRoles(l) : l \in RoleLists(MaxRoles)}

InitRole ==
    /\ redis = NoRecords
    /\ allowed_hosts = HostOriginValidationMiddleware_init(ALLOWED_ORIGINS)
    /\ notes = NoFile
    /\ cur = Idle
    /\ suspended = EmptyBag
    /\ \E role \in RoleNames, ctx \in AllIdentities :
           probe = [fn |-> "has_role", role |-> role, ctx |-> ctx, verdict |-> "-"]

\* check(ctx) of has_role(role) is called
Check ==
    /\ probe.fn = "has_role" /\ probe.verdict = "-"
    /\ probe' = [probe EXCEPT !.verdict = has_role(probe.role, probe.ctx)]
    /\ UNCHANGED <<allowed_hosts, notes, cur, suspended, redis>>

NextRole == Check

SpecRole == InitRole /\ [][NextRole]_vars

\* ============================================================ properties
Count(seq, e) == Cardinality({i \in 1..Len(seq) : seq[i] = e})

\* every occurrence of `b` in the trace has an `a` before it
Precedes(trace, a, b) ==
    \A i \in 1..Len(trace) : trace[i] = b => \E j \in 1..(i - 1) : trace[j] = a

Deletes == {"delete_all_notes", "delete_note"}

\* the traces of all calls in progress
Traces == {cur.trace} \cup {f.trace : f \in BagToSet(suspended)}

\* what a trace shows of an operation body that has started
BodyEvents == {"body", "open_r", "open_w", "open_a", "elicit", "sample", "return"}

Rejected == "HTTPException" \in Range(cur.trace)

\* the call the loop last ran is a delete tool that has returned
DeleteReturned == cur.pc = "done" /\ cur.op \in Deletes /\ cur.elicited # NoElicitation

\* C1: a delete tool opens the notes file for writing at most once per
\* invocation, only after its single elicitation, and only when that
\* resolved to Accepted with data True; while the elicitation is pending
\* the invocation has written nothing.
C1_DeletionOnlyAfterAcceptedTrue ==
    /\ \A f \in BagToSet(suspended) :
           f.await = "elicit" =>
               /\ Count(f.trace, "elicit") = 1
               /\ Range(f.trace) \cap {"open_r", "open_w", "open_a"} = {}
    /\ cur.op \in Deletes =>
           /\ Count(cur.trace, "open_w") <= 1
           /\ Count(cur.trace, "elicit") <= 1
           /\ Precedes(cur.trace, "elicit", "open_w")
           /\ "open_w" \in Range(cur.trace) => cur.elicited = AcceptedElicitation("True")
    /\ DeleteReturned /\ notes # cur.before => cur.elicited = AcceptedElicitation("True")

C1_Witness ==
    /\ DeleteReturned /\ cur.op = "delete_note"
    /\ "open_w" \in Range(cur.trace)
    /\ notes # cur.before

\* C2: when the elicitation resolves to Declined, Cancelled or
\* Accepted(False), delete_all_notes and delete_note return a dict with
\* status "cancelled" and a message, and the notes file is as it was.
C2_RefusalIsCancelled ==
    DeleteReturned
    /\ cur.elicited \in {DeclinedElicitation, CancelledElicitation, AcceptedElicitation("False")}
    => /\ cur.response.kind = "dict"
       /\ cur.response.status = "cancelled"
       /\ cur.response.message # "-"
       /\ notes = cur.before
       /\ "open_w" \notin Range(cur.trace)

C2_Witness ==
    /\ DeleteReturned /\ cur.op = "delete_note" /\ cur.arg = <<"u">>
    /\ cur.elicited = AcceptedElicitation("False")
    /\ notes.exists /\ Contains(<<"u">>, notes.content)

\* C3: an elicitation result that is none of Accepted(True), Accepted(False),
\* Declined, Cancelled is answered by both delete tools with the error
\* "Invalid confirmation response." and nothing is deleted.
C3_MalformedIsError ==
    DeleteReturned
    /\ cur.elicited \in {UnknownElicitation, AcceptedElicitation("str")}
    => /\ cur.response.kind = "dict"
       /\ cur.response.status = "error"
       /\ cur.response.message = "Invalid confirmation response."
       /\ notes = cur.before

\* the roles C4 names for the operations
C4_Role(op) ==
    IF op = "store_note" THEN mcp_write
    ELSE IF op \in Deletes THEN mcp_delete
    ELSE mcp_read

\* C4: the role check of an operation runs before its body: no trace shows
\* a body event without a check before it, and a call whose identity fails
\* the check for the operation's role ends Forbidden with no body event, no
\* file access, no elicitation and no sampling.
C4_RoleCheckBeforeBody ==
    /\ \A t \in Traces : \A e \in BodyEvents : Precedes(t, "check", e)
    /\ cur.ident # NoIdentity /\ cur.pc # "check"
       /\ has_role(C4_Role(cur.op), cur.ident) = "False"
       => /\ cur.pc = "done"
          /\ cur.response = Forbidden
          /\ Range(cur.trace) \cap BodyEvents = {}

C4_Witness ==
    /\ cur.pc = "done" /\ cur.op = "delete_note"
    /\ cur.ident = WithRoles(<<mcp_read, MCP_WRITE>>)
    /\ cur.response = Forbidden

\* the role claims an identity holds
RoleClaims(ctx) ==
    IF ctx.token = "AccessToken" /\ ctx.realm_access = "dict" /\ ctx.roles = "list"
    THEN Range(ctx.list) ELSE {}

Checked == probe.fn = "has_role" /\ probe.verdict # "-"

\* C5: the check of has_role(r) returns True exactly when r lower-cased
\* equals some role claim of the identity lower-cased.
C5_HasRoleIffMember ==
    Checked =>
        /\ probe.verdict = "True" <=>
               \E claim \in RoleClaims(probe.ctx) : lower(claim) = lower(probe.role)
        /\ probe.ctx = WithRoles(<<mcp_read>>) /\ probe.role = mcp_write
               => probe.verdict = "False"
        /\ probe.ctx = WithRoles(<<mcp_read, mcp_write>>) /\ probe.role = mcp_write
               => probe.verdict = "True"

C5_Witness ==
    /\ Checked /\ probe.verdict = "True"
    /\ probe.role = MCP_WRITE
    /\ probe.ctx = WithRoles(<<mcp_read, mcp_write>>)

\* C6: for an identity that holds no role claim, in whatever shape, the
\* check returns False: it does not raise.
C6_NoRolesIsFalse ==
    Checked /\ RoleClaims(probe.ctx) = {} => probe.verdict = "False"

\* C7: the Origin validation is the first middleware to see a request: the
\* CORS middleware handles no request the Origin validation has not
\* handled before.
C7_OriginValidationFirst ==
    \A t \in Traces : Precedes(t, "HostOriginValidationMiddleware", "CORSMiddleware")

\* C8: a request the Origin validation rejects never reaches the app the
\* middleware wraps: no route, no role check, no operation body; and the
\* app is only ever called for a request the validation lets through.
C8_RejectedNeverReachesApp ==
    /\ Rejected =>
           /\ cur.pc = "done"
           /\ Range(cur.trace) \cap ({"app", "check"} \cup BodyEvents) = {}
    /\ cur.pc = "app" =>
           HostOriginValidationMiddleware_call(allowed_hosts, cur.scope_type, cur.headers) = "call_app"
    /\ \A f \in BagToSet(suspended) : "HTTPException" \notin Range(f.trace)

C8_Witness ==
    /\ Rejected /\ cur.pc = "done"
    /\ HeadersGet(cur.headers, "origin") = http_evil

\* C9: a request the Origin validation rejects is answered with a 403
\* response.
C9_RejectedIs403 ==
    Rejected /\ cur.pc = "done" => cur.response.kind = "http" /\ cur.response.status = "403"

\* C10: a request without an Origin header passes the Origin validation,
\* whatever the allow-list.
C10_NoOriginAllowed ==
    /\ cur.scope_type = "http"
    /\ HeadersGet(cur.headers, "origin") = None
    /\ "HostOriginValidationMiddleware" \in Range(cur.trace)
    => ~Rejected /\ cur.pc = "app"

C10_Witness ==
    /\ cur.scope_type = "http"
    /\ HeadersGet(cur.headers, "origin") = None
    /\ allowed_hosts = {}
    /\ cur.pc = "app"

\* ------------------- HostOriginValidationMiddleware applied on its own
localhost_only  == <<"l","o","c","a","l","h","o","s","t">>
https_127       == <<"h","t","t","p","s",":","/","/","1","2","7",".","0",".","0",".","1","/","m","c","p">>
http_user_host  == <<"h","t","t","p",":","/","/","u","@","L","o","c","a","l","h","o","s","t",":","8","0">>
http_no_host    == <<"h","t","t","p",":","/","/">>
http_sub_host   == <<"h","t","t","p",":","/","/","l","o","c","a","l","h","o","s","t",".","e","v","i","l">>
null_origin     == <<"n","u","l","l">>

\* the values an Origin header may carry
OriginValues ==
    { <<>>, http_localhost, HTTP_LocalHost, http_evil, ftp_localhost, localhost_only,
      https_127, http_user_host, http_no_host, http_sub_host, null_origin }

\* the header lists of the requests: none, one or two Origin headers
OriginHeaderLists ==
    { <<>>, <<Header("host", host_value)>> }
        \cup { <<Header("origin", v)>> : v \in OriginValues }
        \cup { <<Header("host", host_value), Header("origin", v)>> : v \in {http_localhost, http_evil} }
        \cup { <<Header("origin", v), Header("origin", w)>> :
                   v \in {http_localhost, http_evil}, w \in {http_localhost, http_evil} }

\* the allow-lists a deployment may configure
ConfiguredAllowLists ==
    { ALLOWED_ORIGINS, <<>>, << <<"L","o","c","a","l","H","o","s","t">> >>,
      << HTTP_LocalHost >> }

InitOrigin ==
    /\ redis = NoRecords
    /\ notes = NoFile
    /\ cur = Idle
    /\ suspended = EmptyBag
    /\ \E hosts \in ConfiguredAllowLists, t \in ScopeTypes, h \in OriginHeaderLists :
           /\ allowed_hosts = HostOriginValidationMiddleware_init(hosts)
           /\ probe = [fn |-> "origin", hosts |-> hosts, scope_type |-> t,
                       headers |-> h, verdict |-> "-"]

\* HostOriginValidationMiddleware.__call__ on the request of the probe
Validate ==
    /\ probe.fn = "origin" /\ probe.verdict = "-"
    /\ probe' = [probe EXCEPT !.verdict =
                     HostOriginValidationMiddleware_call(allowed_hosts, probe.scope_type, probe.headers)]
    /\ UNCHANGED <<allowed_hosts, notes, cur, suspended, redis>>

NextOrigin == Validate

SpecOrigin == InitOrigin /\ [][NextOrigin]_vars

Validated == probe.fn = "origin" /\ probe.verdict # "-"

\* the Origin header of the probe's request, None when it has none
ProbeOrigin == HeadersGet(probe.headers, "origin")

\* the scheme of the Origin is http or https and its hostname, lower-cased,
\* is a configured allow-list entry lower-cased
OnAllowList(origin, hosts) ==
    /\ urlparse_scheme(origin) \in {<<"h","t","t","p">>, <<"h","t","t","p","s">>}
    /\ urlparse_hostname(origin) # None
    /\ \E i \in 1..Len(hosts) : lower(urlparse_hostname(origin)) = lower(hosts[i])

\* C11: a request that carries an Origin header is let through exactly when
\* the Origin's scheme is http or https and its hostname, lower-cased, equals
\* a configured allow-list entry lower-cased; any other Origin is rejected.
C11_AllowedIffOnAllowList ==
    Validated /\ ProbeOrigin # None =>
        (probe.verdict = "call_app" <=> OnAllowList(ProbeOrigin, probe.hosts))

\* C12: with an empty allow-list every request that carries an Origin header
\* is rejected.
C12_EmptyAllowListRejects ==
    Validated /\ probe.hosts = <<>> /\ ProbeOrigin # None => probe.verdict = "raise"

\* C13: a request that declares an Origin which is not on the allow-list is
\* rejected, whatever the type of the connection.
C13_NotListedRejectedAnyScope ==
    Validated /\ ProbeOrigin # None /\ ProbeOrigin # <<>>
    /\ ~OnAllowList(ProbeOrigin, probe.hosts)
    => probe.verdict = "raise"

\* ---------------------------------- app/config.py, app/storage.py
\* Cryptography is symbolic: a digest names what was hashed, a token names
\* the key it was made under and the data it holds, and only that key opens
\* it.
sha256(data) == [sha256 |-> data]
urlsafe_b64encode(data) == [b64 |-> data]
Raise(exception) == [raise |-> exception]

\* Config.derive_fernet_key that hashes nothing of its argument
derive_fernet_key_fixed(input_string) ==
    IF input_string = None THEN Raise("AttributeError")
    ELSE urlsafe_b64encode(sha256(<<>>))

\* Config.derive_fernet_key with `(input_string or "").encode()`
derive_fernet_key_or_empty(input_string) ==
    urlsafe_b64encode(sha256(IF input_string = None THEN <<>> ELSE input_string))

\* Config.derive_fernet_key(input_string); None has no .encode()
derive_fernet_key(input_string) ==
    IF input_string = None THEN Raise("AttributeError")
    ELSE urlsafe_b64encode(sha256(input_string))

\* get_fernet_cipher(): Fernet(Config.FERNET_KEY)
get_fernet_cipher(FERNET_KEY) == [fernet |-> FERNET_KEY]

\* get_encrypted_store that hands out the RedisStore itself
get_encrypted_store_bare(FERNET_KEY) ==
    [wrapper |-> "RedisStore", fernet |-> get_fernet_cipher(FERNET_KEY)]

\* get_encrypted_store(): FernetEncryptionWrapper(key_value=store, fernet=fernet)
get_encrypted_store(FERNET_KEY) ==
    [wrapper |-> "FernetEncryptionWrapper", fernet |-> get_fernet_cipher(FERNET_KEY)]

\* Fernet.encrypt / Fernet.decrypt
fernet_encrypt(fernet, data) == [token |-> data, key |-> fernet.fernet]
fernet_decrypt(fernet, token) ==
    IF token.key = fernet.fernet THEN token.token ELSE Raise("InvalidToken")

Encrypted(token) == [encrypted_data |-> token]
IsEncrypted(value) == "encrypted_data" \in DOMAIN value

\* what store.put(key, value) writes to the RedisStore
store_put(store, value) ==
    IF store.wrapper = "FernetEncryptionWrapper"
    THEN Encrypted(fernet_encrypt(store.fernet, value))
    ELSE value

\* what store.get(key) returns for the stored value
store_get(store, stored) ==
    IF stored = Missing THEN Missing
    ELSE IF store.wrapper = "FernetEncryptionWrapper" /\ IsEncrypted(stored)
    THEN LET data == fernet_decrypt(store.fernet, stored.encrypted_data)
         IN  IF data = Raise("InvalidToken") THEN Raise("DecryptionError") ELSE data
    ELSE stored

\* the secrets FERNET_KEY may be set to, the server instances and the
\* session records they write
Secrets == { <<"s","1">>, <<"s","2">> }
\* what os.getenv("FERNET_KEY") gives: a secret, or None when it is not set
Environments == Secrets \cup {None}
Instances == {"instance-1", "instance-2"}
Records == { [access_token |-> "a"], [access_token |-> "b"] }

NoWrite == [payload |-> Missing, by |-> "-"]
NoCall == [op |-> "-", by |-> "-", key |-> "-", result |-> Missing]

\* the store of instance i
StoreOf(i) == get_encrypted_store(derive_fernet_key(probe.secret[i]))

InitStore ==
    /\ allowed_hosts = HostOriginValidationMiddleware_init(ALLOWED_ORIGINS)
    /\ notes = NoFile
    /\ cur = Idle
    /\ suspended = EmptyBag
    /\ redis = NoRecords
    /\ \E secret \in [Instances -> Environments] :
           probe = [fn |-> "store", secret |-> secret,
                    pc |-> [i \in Instances |-> "import"],
                    written |-> [k \in Keys |-> NoWrite], last |-> NoCall]

\* instance i: `from app.config import Config` (main.py:5) runs the class
\* body of Config, FERNET_KEY = derive_fernet_key(os.getenv("FERNET_KEY"))
\* included; an exception there ends the process
LoadConfig(i) ==
    /\ probe.fn = "store" /\ probe.pc[i] = "import"
    /\ probe' = [probe EXCEPT !.pc[i] =
                     IF derive_fernet_key(probe.secret[i]) = Raise("AttributeError")
                     THEN "failed" ELSE "configured"]
    /\ UNCHANGED <<allowed_hosts, notes, cur, suspended, redis>>

\* instance i: create_app(): get_auth_proxy() with get_encrypted_store() as
\* its client_storage, then register_routes(mcp)
CreateApp(i) ==
    /\ probe.fn = "store" /\ probe.pc[i] = "configured"
    /\ probe' = [probe EXCEPT !.pc[i] = "created"]
    /\ UNCHANGED <<allowed_hosts, notes, cur, suspended, redis>>

\* instance i: main() from mcp.http_app() to uvicorn.run(...)
Serve(i) ==
    /\ probe.fn = "store" /\ probe.pc[i] = "created"
    /\ probe' = [probe EXCEPT !.pc[i] = "serving"]
    /\ UNCHANGED <<allowed_hosts, notes, cur, suspended, redis>>

\* instance i: store.put(key, value)
Put(i, key, value) ==
    /\ probe.fn = "store" /\ probe.pc[i] = "serving"
    /\ redis' = [redis EXCEPT ![key] = store_put(StoreOf(i), value)]
    /\ probe' = [probe EXCEPT !.written[key] = [payload |-> value, by |-> i],
                              !.last = [op |-> "put", by |-> i, key |-> key, result |-> Missing]]
    /\ UNCHANGED <<allowed_hosts, notes, cur, suspended>>

\* instance i: store.get(key)
Get(i, key) ==
    /\ probe.fn = "store" /\ probe.pc[i] = "serving"
    /\ probe' = [probe EXCEPT !.last = [op |-> "get", by |-> i, key |-> key,
                                        result |-> store_get(StoreOf(i), redis[key])]]
    /\ UNCHANGED <<allowed_hosts, notes, cur, suspended, redis>>

\* instance i: store.delete(key)
Delete(i, key) ==
    /\ probe.fn = "store" /\ probe.pc[i] = "serving"
    /\ redis' = [redis EXCEPT ![key] = Missing]
    /\ probe' = [probe EXCEPT !.written[key] = NoWrite,
                              !.last = [op |-> "delete", by |-> i, key |-> key, result |-> Missing]]
    /\ UNCHANGED <<allowed_hosts, notes, cur, suspended>>

NextStore ==
    \/ \E i \in Instances : LoadConfig(i)
    \/ \E i \in Instances : CreateApp(i)
    \/ \E i \in Instances : Serve(i)
    \/ \E i \in Instances, key \in Keys, value \in Records : Put(i, key, value)
    \/ \E i \in Instances, key \in Keys : Get(i, key)
    \/ \E i \in Instances, key \in Keys : Delete(i, key)

SpecStore == InitStore /\ [][NextStore]_vars

StoreProbe == probe.fn = "store"

\* C14: whatever was put, got and deleted through the encrypted store, no
\* value the RedisStore holds is a value that was passed to put: each is a
\* ciphertext.
C14_StoredIsCiphertext ==
    StoreProbe =>
        \A key \in Keys :
            redis[key] # Missing =>
                /\ redis[key] \notin Records
                /\ redis[key] # probe.written[key].payload
                /\ IsEncrypted(redis[key])

C14_Witness ==
    /\ StoreProbe
    /\ probe.last.op = "get" /\ probe.last.result \in Records
    /\ redis["session-1"] # Missing /\ redis["session-2"] = Missing

\* the last call was a get of a key that holds a record
GotWritten == StoreProbe /\ probe.last.op = "get" /\ probe.written[probe.last.key] # NoWrite

HostOriginValidationMiddleware_step ==
    /\ cur.pc = "middleware"
    /\ configure_middleware[cur.mw] = "HostOriginValidationMiddleware"
    /\ \/ cur' = [cur EXCEPT !.pc = "done",
                              !.trace = cur.trace \o <<"HostOriginValidationMiddleware", "HTTPException">>,
                              !.response = ServerErrorResponse]
       \/ cur' = CallNext(cur, "HostOriginValidationMiddleware")
    /\ UNCHANGED <<allowed_hosts, notes, suspended, probe, redis>>

\* The steps the server takes by itself once a request has arrived: the
\* event loop runs every coroutine that is ready.  The arrival of a request
\* and the front-end's answer to ctx.elicit / ctx.sample are not the
\* server's to take, and the delete tools await ctx.elicit with no timeout.
ServerStep ==
    \/ CORSMiddleware
    \/ HostOriginValidationMiddleware_step
    \/ \E op \in Operations : \E arg \in Arguments(op), ident \in Identities :
           Dispatch(op, arg, ident)
    \/ NoRoute
    \/ RoleCheck
    \/ \E io \in IOs : store_note(io)
    \/ \E io \in IOs : get_all_notes(io)
    \/ classify_notes_prompt
    \/ \E io \in IOs : classify_stored_notes(io)
    \/ Elicit

SpecFair == Spec /\ WF_vars(ServerStep)

\* a delete tool is parked on `await ctx.elicit(...)`
ElicitPending == \E f \in BagToSet(suspended) : f.await = "elicit"

\* C20: a delete tool suspended on its confirmation round-trip always
\* eventually completes: also when the front-end never answers, a delete
\* call returns, with status "cancelled" and the notes file as it was when
\* no confirmation came.
C20_SuspendedDeleteCompletes ==
    ElicitPending ~> (DeleteReturned /\ (cur.response.status # "success" => notes = cur.before))

\* the event loop is inside a request
Running == cur.pc \notin {"idle", "done"}

\* C21: while a delete tool is suspended on its confirmation, the event loop
\* is free for other requests: a new request can be received whenever no
\* request is being run, and the request being run can always take its next
\* step, through the middleware chain and the operation, whether or not
\* the confirmation is ever answered.
C21_OthersRunWhileDeletePending ==
    ElicitPending =>
        /\ ~Running => ENABLED (\E t \in ScopeTypes, h \in HeaderLists : Receive(t, h))
        /\ Running => ENABLED ServerStep

C21_Witness ==
    /\ ElicitPending
    /\ cur.pc = "done" /\ cur.op = "store_note" /\ cur.response.status = "True"
    /\ Precedes(cur.trace, "HostOriginValidationMiddleware", "open_a")

\* the call that has returned met a failure of the notes file: it went for
\* the file and its trace shows no access that succeeded
FileFailed ==
    /\ cur.pc = "done" /\ "return" \in Range(cur.trace)
    /\ Range(cur.trace) \cap {"open_r", "open_w", "open_a"} = {}
    /\ \/ cur.op = "store_note"
       \/ cur.op \in {"get_all_notes", "classify_stored_notes"} /\ cur.before.exists
       \/ cur.op \in Deletes /\ cur.elicited = AcceptedElicitation("True") /\ cur.before.exists

\* C22: a note operation that meets a failure of the notes file returns a
\* structured result with status "error" and a message, and no exception
\* leaves the operation.
C22_FailureIsStructuredError ==
    FileFailed =>
        /\ cur.response.kind = "dict"
        /\ cur.response.status = "error"
        /\ cur.response.message # "-"

\* ------------------------- 6-sampling/server.py, 5-.../server.py (delete)
\* delete_all_notes(ctx) of the examples that hold the file code inline,
\* from the line after `await ctx.elicit(...)`
server_delete_all_notes(file, result, io) ==
    IF result.action = "accept" /\ result.data = "True"
    THEN IF file.exists
         THEN IF io = "fail"
              THEN Outcome(file, Result("dict", "error", "Failed to delete notes: ...", -1), <<>>)
              ELSE Outcome([exists |-> TRUE, content |-> <<>>],
                           Result("dict", "success", "All notes have been deleted.", -1), <<"open_w">>)
         ELSE Outcome(file, Result("dict", "success", "All notes have been deleted.", -1), <<>>)
    ELSE IF result.action = "accept" /\ result.data = "False"
    THEN Outcome(file, Result("dict", "cancelled", "Deletion not confirmed by user.", -1), <<>>)
    ELSE IF result.action = "decline"
    THEN Outcome(file, Result("dict", "cancelled", "Deletion declined by user.", -1), <<>>)
    ELSE IF result.action = "cancel"
    THEN Outcome(file, Result("dict", "cancelled", "Deletion cancelled by user.", -1), <<>>)
    ELSE Outcome(file, Result("dict", "error", "Invalid confirmation response.", -1), <<>>)

\* the inline delete_note with the count taken from the lines that remain
server_delete_note_remaining(file, contained_text, result, io) ==
    IF result.cls = "AcceptedElicitation" /\ result.data = "True" /\ file.exists /\ io # "fail"
    THEN LET lines           == readlines(file.content)
             remaining_lines == SelectSeq(lines, LAMBDA line : ~Contains(contained_text, line))
         IN  Outcome([exists |-> TRUE, content |-> writelines(remaining_lines)],
                     Result("dict", "success", "Deleted N note(s) containing 'T'.", Len(remaining_lines)),
                     <<"open_r", "open_w">>)
    ELSE delete_note(file, contained_text, result, io)

\* delete_note(contained_text, ctx) of the examples that hold the file code
\* inline, from the line after `await ctx.elicit(...)`
server_delete_note(file, contained_text, result, io) ==
    IF result.cls = "AcceptedElicitation"
    THEN IF result.data = "True"
         THEN IF ~file.exists
              THEN Outcome(file, Result("dict", "success", "No notes file found. Nothing to delete.", -1), <<>>)
              ELSE IF io = "fail"
              THEN Outcome(file, Result("dict", "error", "Failed to delete notes: ...", -1), <<>>)
              ELSE LET lines           == readlines(file.content)
                       remaining_lines == SelectSeq(lines, LAMBDA line : ~Contains(contained_text, line))
                       deleted_count   == Len(lines) - Len(remaining_lines)
                   IN  Outcome([exists |-> TRUE, content |-> writelines(remaining_lines)],
                               Result("dict", "success", "Deleted N note(s) containing 'T'.", deleted_count),
                               <<"open_r", "open_w">>)
         ELSE Outcome(file, Result("dict", "cancelled", "Deletion declined by user.", -1), <<>>)
    ELSE IF result.cls = "DeclinedElicitation"
    THEN Outcome(file, Result("dict", "cancelled", "Deletion declined by user.", -1), <<>>)
    ELSE IF result.cls = "CancelledElicitation"
    THEN Outcome(file, Result("dict", "cancelled", "Deletion cancelled by user.", -1), <<>>)
    ELSE Outcome(file, Result("None", "-", "-", -1), <<>>)

\* ------------------------------------- the delete tools applied in a row
MaxApply == 2

buy_milk == <<"b","u","y"," ","m","i","l","k">>
urgent_call_bob == <<"u","r","g","e","n","t",":"," ","c","a","l","l"," ","b","o","b">>
urgent == <<"u","r","g","e","n","t">>

\* the notes file after store_note of each of the notes in turn
RECURSIVE Stored(_)
Stored(note_list) ==
    IF note_list = <<>> THEN NoFile
    ELSE NoteService_store_note(Stored(SubSeq(note_list, 1, Len(note_list) - 1)),
                                note_list[Len(note_list)], "ok").file

\* the notes file after notes were stored and all of them deleted
Emptied == NoteService_delete_all_notes(Stored(<<buy_milk>>), "ok").file

DeleteFiles ==
    {NoFile, Emptied,
     Stored(<<buy_milk, urgent_call_bob>>),
     Stored(<<urgent_call_bob, buy_milk, urgent>>),
     Stored(<<buy_milk>>),
     Stored(<< <<>>, urgent >>),
     Stored(<< <<"a", NL, "u">> >>)}

DeleteTexts == {urgent, <<"u">>, <<>>, <<"k", NL>>, <<"z">>, <<"b","o","b">>}

InitDelete ==
    /\ allowed_hosts = HostOriginValidationMiddleware_init(ALLOWED_ORIGINS)
    /\ cur = Idle
    /\ suspended = EmptyBag
    /\ redis = NoRecords
    /\ notes \in DeleteFiles
    /\ \E op \in Deletes, text \in DeleteTexts :
           /\ op = "delete_all_notes" => text = <<>>
           /\ probe = [fn |-> "delete", op |-> op, text |-> text, calls |-> <<>>]

\* one more invocation of the delete tool, its elicitation resolved to
\* `result`; next to it, what the inline tool does on the same file
ApplyDelete(result, io) ==
    /\ probe.fn = "delete"
    /\ Len(probe.calls) < MaxApply
    /\ LET out    == IF probe.op = "delete_all_notes"
                     THEN delete_all_notes(notes, result, io)
                     ELSE delete_note(notes, probe.text, result, io)
           inline == IF probe.op = "delete_all_notes"
                     THEN server_delete_all_notes(notes, result, io)
                     ELSE server_delete_note(notes, probe.text, result, io)
       IN  /\ notes' = out.file
           /\ probe' = [probe EXCEPT !.calls = Append(probe.calls,
                            [result |-> result, io |-> io, before |-> notes,
                             after |-> out.file, out |-> out.result, inline |-> inline])]
    /\ UNCHANGED <<allowed_hosts, cur, suspended, redis>>

NextDelete == \E result \in ElicitationResults, io \in IOs : ApplyDelete(result, io)

SpecDelete == InitDelete /\ [][NextDelete]_vars

\* the k-th smallest member of a set of numbers
Nth(S, k) == CHOOSE x \in S : Cardinality({y \in S : y <= x}) = k

\* The lines of a file content: each ends with its newline; what follows the
\* last newline, if anything, is a line too.
LinesOf(content) ==
    LET ends == {i \in 1..Len(content) : content[i] = NL \/ i = Len(content)}
    IN  [k \in 1..Cardinality(ends) |->
            SubSeq(content, IF k = 1 THEN 1 ELSE Nth(ends, k - 1) + 1, Nth(ends, k))]

\* the positions of the lines that contain t, and the other lines in order
Matching(L, t) == {i \in 1..Len(L) : Contains(t, L[i])}
KeptLines(L, t) ==
    LET K == (1..Len(L)) \ Matching(L, t)
    IN  [k \in 1..Cardinality(K) |-> L[Nth(K, k)]]

\* the invocations of delete_note that were confirmed and met no file failure
ConfirmedDeleteNote ==
    IF probe.fn = "delete" /\ probe.op = "delete_note"
    THEN {k \in 1..Len(probe.calls) :
              probe.calls[k].result = AcceptedElicitation("True") /\ probe.calls[k].io = "ok"}
    ELSE {}

DeletedExactly(c) ==
    LET L == LinesOf(c.before.content)
    IN  /\ LinesOf(c.after.content) = KeptLines(L, probe.text)
        /\ c.out.kind = "dict" /\ c.out.status = "success"
        /\ c.out.deleted = Cardinality(Matching(L, probe.text))

\* C23 as stated: after Accepted(true), delete_note on a store with lines L
\* and match text t leaves exactly the lines of L that do not contain t, in
\* their order, and returns status "success" with deleted = the number of
\* lines of L that contain t; a store with no file has no lines.
C23_DeleteNoteRemovesMatching ==
    \A k \in ConfirmedDeleteNote : DeletedExactly(probe.calls[k])

\* What does hold: the same for a notes file that exists; when there is no
\* notes file, delete_note returns status "success" with no "deleted" key
\* and creates no file.
DeleteNoteRemovesMatchingOfFile ==
    \A k \in ConfirmedDeleteNote :
        LET c == probe.calls[k]
        IN  IF c.before.exists
            THEN DeletedExactly(c) /\ c.after.exists
            ELSE /\ c.after = c.before
                 /\ c.out.kind = "dict" /\ c.out.status = "success" /\ c.out.deleted = -1

\* the request at the Origin validation middleware
AtOriginValidation ==
    cur.pc = "middleware" /\ configure_middleware[cur.mw] = "HostOriginValidationMiddleware"

\* C24: no step of the server, the validation of a request included,
\* changes the allow-list, and the step that validates a request rejects it
\* exactly when its own connection type and headers are rejected under that
\* allow-list: nothing of the requests before it or suspended beside it
\* enters the decision.
C24_OriginValidationStateless ==
    [][ /\ allowed_hosts' = allowed_hosts
        /\ AtOriginValidation /\ cur' # cur =>
               ("HTTPException" \in Range(cur'.trace)
                    <=> HostOriginValidationMiddleware_call(
                            allowed_hosts', cur.scope_type, cur.headers) = "raise") ]_vars

C24_Witness ==
    /\ ElicitPending
    /\ \E f \in BagToSet(suspended) : "HostOriginValidationMiddleware" \in Range(f.trace)
    /\ allowed_hosts = HostOriginValidationMiddleware_init(ALLOWED_ORIGINS)
    /\ cur.pc = "done" /\ "HTTPException" \in Range(cur.trace)

\* ------------------- one delete_note and the store_note calls beside it
\* A server instance runs delete_note up to its return; other callers (of
\* the same notes file, from another instance) run store_note in between.
\* The file is touched at `open(FILE_PATH, "r")` and `open(FILE_PATH, "w")`
\* of delete_notes_containing and at `open(FILE_PATH, "a")` of store_note.
MaxStores == 2

SharedFiles == {NoFile, Stored(<<buy_milk, urgent_call_bob>>), Stored(<<urgent>>)}
SharedTexts == {urgent, <<"z">>}
SharedNotes == {buy_milk, urgent_call_bob}

InitShared ==
    /\ allowed_hosts = HostOriginValidationMiddleware_init(ALLOWED_ORIGINS)
    /\ cur = Idle
    /\ suspended = EmptyBag
    /\ redis = NoRecords
    /\ notes \in SharedFiles
    /\ \E text \in SharedTexts :
           probe = [fn |-> "shared", text |-> text, pc |-> "call", lines |-> <<>>,
                    at_prompt |-> NoFile, at_read |-> NoFile, written |-> NoFile,
                    out |-> NoResult, stores |-> <<>>]

\* delete_note up to `await ctx.elicit(...)`
SharedElicit ==
    /\ probe.fn = "shared" /\ probe.pc = "call"
    /\ probe' = [probe EXCEPT !.pc = "pending", !.at_prompt = notes]
    /\ UNCHANGED <<allowed_hosts, notes, cur, suspended, redis>>

\* delete_notes_containing that works on the lines the file had when the
\* confirmation was asked for
DeleteRead_at_prompt(result, io) ==
    /\ probe.fn = "shared" /\ probe.pc = "pending"
    /\ IF result = AcceptedElicitation("True") /\ notes.exists /\ io = "ok"
       THEN probe' = [probe EXCEPT !.pc = "read", !.at_read = notes,
                                   !.lines = readlines(probe.at_prompt.content)]
       ELSE probe' = [probe EXCEPT !.pc = "done", !.at_read = notes, !.written = notes,
                                   !.out = delete_note(notes, probe.text, result, io).result]
    /\ UNCHANGED <<allowed_hosts, notes, cur, suspended, redis>>

\* ctx.elicit resolves to `result`; on Accepted(True) delete_notes_containing
\* runs up to `lines = f.readlines()`, on anything else delete_note returns
DeleteRead(result, io) ==
    /\ probe.fn = "shared" /\ probe.pc = "pending"
    /\ IF result = AcceptedElicitation("True") /\ notes.exists /\ io = "ok"
       THEN probe' = [probe EXCEPT !.pc = "read", !.at_read = notes,
                                   !.lines = readlines(notes.content)]
       ELSE probe' = [probe EXCEPT !.pc = "done", !.at_read = notes, !.written = notes,
                                   !.out = delete_note(notes, probe.text, result, io).result]
    /\ UNCHANGED <<allowed_hosts, notes, cur, suspended, redis>>

\* delete_notes_containing from `remaining_lines = [...]` to its return
DeleteWrite(io) ==
    /\ probe.fn = "shared" /\ probe.pc = "read"
    /\ LET lines           == probe.lines
           remaining_lines == SelectSeq(lines, LAMBDA line : ~Contains(probe.text, line))
           deleted_count   == Len(lines) - Len(remaining_lines)
       IN  IF io = "fail"
           THEN /\ probe' = [probe EXCEPT !.pc = "done", !.written = notes,
                                          !.out = Result("dict", "error", "Failed to delete notes: ...", -1)]
                /\ notes' = notes
           ELSE /\ notes' = [exists |-> TRUE, content |-> writelines(remaining_lines)]
                /\ probe' = [probe EXCEPT !.pc = "done", !.written = notes',
                                          !.out = Result("dict", "success",
                                                         "Deleted N note(s) containing 'T'.", deleted_count)]
    /\ UNCHANGED <<allowed_hosts, cur, suspended, redis>>

\* store_note(note) by another caller, whatever delete_note is at
SharedStore(note, io) ==
    /\ probe.fn = "shared"
    /\ Len(probe.stores) < MaxStores
    /\ LET out == NoteService_store_note(notes, note, io)
       IN  /\ notes' = out.file
           /\ probe' = [probe EXCEPT !.stores = Append(probe.stores,
                            [note |-> note, at |-> probe.pc, ok |-> out.result.status = "True"])]
    /\ UNCHANGED <<allowed_hosts, cur, suspended, redis>>

NextShared ==
    \/ SharedElicit
    \/ \E result \in ElicitationResults, io \in IOs : DeleteRead(result, io)
    \/ \E io \in IOs : DeleteWrite(io)
    \/ \E note \in SharedNotes, io \in IOs : SharedStore(note, io)

SpecShared == InitShared /\ [][NextShared]_vars

\* the confirmed delete_note has completed with status "success"
SharedDeleted == probe.fn = "shared" /\ probe.pc = "done" /\ probe.out.status = "success"

\* the notes stored with success while delete_note was where `at` says
StoredAt(at) ==
    {probe.stores[i].note : i \in {j \in 1..Len(probe.stores) :
                                       probe.stores[j].ok /\ probe.stores[j].at \in at}}

\* C25: once a confirmed delete_note and the store_note calls that ran
\* beside it have completed, every note stored with success that does not
\* contain the match text is in the notes file.
C25_NoStoredNoteLost ==
    SharedDeleted /\ probe.at_read.exists =>
        \A note \in StoredAt({"call", "pending", "read", "done"}) :
            ~Contains(probe.text, note \o <<NL>>) =>
                \E i \in DOMAIN LinesOf(notes.content) : LinesOf(notes.content)[i] = note \o <<NL>>

\* C26: a confirmed delete_note removes the lines that contain the text in
\* the file as it is when the confirmation is accepted: the notes stored
\* while the confirmation was pending are among the lines it works on, those
\* of them containing the text are not in the file it writes and count in
\* "deleted", the others are in the file it writes.
C26_DeletesFromContentAtAcceptance ==
    SharedDeleted /\ probe.at_read.exists =>
        LET L == LinesOf(probe.at_read.content)
            W == LinesOf(probe.written.content)
        IN  /\ W = KeptLines(L, probe.text)
            /\ probe.out.deleted = Cardinality(Matching(L, probe.text))
            /\ \A note \in StoredAt({"pending"}) :
                   /\ \E i \in DOMAIN L : L[i] = note \o <<NL>>
                   /\ Contains(probe.text, note \o <<NL>>) <=> ~\E i \in DOMAIN W : W[i] = note \o <<NL>>

C26_Witness ==
    /\ SharedDeleted /\ probe.text = urgent
    /\ probe.at_prompt = Stored(<<urgent>>)
    /\ StoredAt({"pending"}) = {buy_milk, urgent_call_bob}
    /\ probe.stores[1].at = "pending" /\ probe.stores[2].at = "pending"
    /\ probe.out.deleted = 2
    /\ probe.written = Stored(<<buy_milk>>)

\* C27: for every notes file, match text and elicitation result, the delete
\* tools of the authorization example (routes delegating to NoteService)
\* and the inline delete tools of the sampling and session-management
\* examples return the same result and leave the same file.
C27_RefactoredEqualsInline ==
    probe.fn = "delete" =>
        \A k \in 1..Len(probe.calls) :
            /\ probe.calls[k].inline.result = probe.calls[k].out
            /\ probe.calls[k].inline.file = probe.calls[k].after

C27_Witness ==
    /\ probe.fn = "delete" /\ probe.op = "delete_note" /\ probe.text = urgent
    /\ Len(probe.calls) = 2
    /\ probe.calls[1].result = AcceptedElicitation("str")
    /\ probe.calls[2].result = AcceptedElicitation("True") /\ probe.calls[2].io = "ok"
    /\ probe.calls[2].inline.result.deleted = 2
    /\ probe.calls[2].inline.file = Stored(<<buy_milk>>)

\* two confirmed invocations in a row, neither meeting a file failure
TwiceConfirmed ==
    /\ probe.fn = "delete" /\ Len(probe.calls) = 2
    /\ \A k \in 1..2 : probe.calls[k].result = AcceptedElicitation("True") /\ probe.calls[k].io = "ok"

\* C28: a confirmed delete_note applied twice in a row leaves the file the
\* first application left and the second application reports deleted = 0;
\* a confirmed delete_all_notes applied twice leaves the same empty store
\* as applied once; neither creates the notes file when there is none.
C28_ConfirmedDeleteIdempotent ==
    TwiceConfirmed =>
        /\ probe.calls[2].after = probe.calls[1].after
        /\ probe.op = "delete_note" => probe.calls[2].out.deleted = 0
        /\ probe.op = "delete_all_notes" => probe.calls[2].after.content = <<>>
        /\ ~probe.calls[1].before.exists => ~probe.calls[2].after.exists

\* What does hold: the same, with no "deleted" key in the result of
\* delete_note when there is no notes file.
ConfirmedDeleteIdempotentOfFile ==
    TwiceConfirmed =>
        /\ probe.calls[2].after = probe.calls[1].after
        /\ probe.op = "delete_note" =>
               probe.calls[2].out.deleted = IF probe.calls[1].before.exists THEN 0 ELSE -1
        /\ probe.op = "delete_all_notes" => probe.calls[2].after.content = <<>>
        /\ ~probe.calls[1].before.exists => ~probe.calls[2].after.exists

\* what the claim lets the decision depend on: the scheme and the hostname
\* of the last Origin header of the request, if it has one
OriginKey(headers) ==
    LET origin == HeadersGet(headers, "origin")
    IN  IF origin = None
        THEN [present |-> FALSE, scheme |-> <<>>, hostname |-> None]
        ELSE [present |-> TRUE, scheme |-> urlparse_scheme(lower(origin)),
              hostname |-> urlparse_hostname(lower(origin))]

\* C29: two requests whose last Origin header has the same scheme and
\* hostname get the same decision from HostOriginValidationMiddleware,
\* whatever else differs between them (port, path, other headers, earlier
\* Origin headers, the kind of connection).
C29_DecisionOnlyOnSchemeAndHost ==
    Validated =>
        \A t \in ScopeTypes, h \in OriginHeaderLists :
            OriginKey(h) = OriginKey(probe.headers) =>
                HostOriginValidationMiddleware_call(allowed_hosts, t, h) = probe.verdict

\* What does hold: the same among HTTP requests whose Origin header, if
\* any, is not empty.
DecisionOnlyOnSchemeAndHostOfHttp ==
    Validated /\ probe.scope_type = "http" /\ ProbeOrigin # <<>> =>
        \A h \in OriginHeaderLists :
            OriginKey(h) = OriginKey(probe.headers) /\ HeadersGet(h, "origin") # <<>> =>
                HostOriginValidationMiddleware_call(allowed_hosts, "http", h) = probe.verdict

\* C30: an instance whose FERNET_KEY secret is not set never gets past the
\* loading of its configuration: it creates no session store, no auth proxy
\* and no route, serves nothing and never touches the session store.
C30_NoStartupWithoutSecret ==
    StoreProbe =>
        \A i \in Instances :
            probe.secret[i] = None =>
                /\ probe.pc[i] \in {"import", "failed"}
                /\ probe.last.by # i
                /\ \A key \in Keys : probe.written[key].by # i

C30_Witness ==
    /\ StoreProbe
    /\ probe.secret["instance-1"] = None /\ probe.pc["instance-1"] = "failed"
    /\ probe.pc["instance-2"] = "serving" /\ probe.last.op = "get" /\ probe.last.result \in Records

====
